---- MODULE Spec2Model ----
(***************************************************************************)
(* State-machine model of chatguys: the interactive loop ChatApp.run, the  *)
(* per-role unit ChatApp._process_agent_response / Agent.get_response, the *)
(* asyncio.gather future the loop awaits, the SIGINT/SIGTERM handler and   *)
(* the ContextManager history.                                             *)
(*                                                                         *)
(* Granularity: one action is one uninterrupted run of a coroutine from    *)
(* one suspension point (await) to the next, which is what the asyncio     *)
(* event loop executes atomically.  A task's done-callback into the        *)
(* gathering future is folded into the step that finishes the task.        *)
(***************************************************************************)
EXTENDS Integers, Sequences, FiniteSets, TLC

\* ---------------------------------------------------------------- bounds
MaxInstr == 2
MaxDispatches == 1
MaxTime == 40
Quantum == 30
MaxCap == 2        \* store capacities 0..MaxCap
MaxStamp == 1      \* store clock and file timestamps 0..MaxStamp
MaxFileLen == 2    \* messages in a session file found on disk
MaxMsgLen == 7     \* characters in a line handed to the parser

\* ------------------------------------------------------ program constants
max_history == 3
ApiTimeout == 30
Grace == 5

\* ------------------------------------------------------------ role directory
\* ConfigManager.roles: role name -> kind of configuration stored for it.
\* "ok" is a well-formed mapping, "malformed" a truthy value that is not a
\* mapping (Agent.__init__ raises on it).  "Ghost" is not in the directory.
roles == [r \in {"Tech", "Broken"} |->
             IF r = "Broken" THEN "malformed" ELSE "ok"]

RoleNames == {"Tech", "Ghost", "Broken"}
Texts == {"hi"}
Answers == {"a1", "a2"}

\* Variant: an unknown role falls back to the configuration of "Tech".
get_role_config_Fallback(role_name) ==
    IF role_name \in DOMAIN roles THEN roles[role_name] ELSE roles["Tech"]

get_role_config(role_name) ==
    IF role_name \in DOMAIN roles THEN roles[role_name] ELSE "None"

\* ------------------------------------------------------------ message texts
format_role_message(role, message) == <<"[To ", role, "] ", message>>
NotFoundMsg(role_name) == <<"Error: Role '", role_name, "' not found.">>
TimeoutMsg == <<"Error: Response timeout after 30 seconds">>
ApiErrorMsg(role_name) == <<"Error getting response from ", role_name, ": ", "APIError">>
UnitErrorMsg(role_name, e) == <<"Error from ", role_name, ": ", e>>
DispatchErrorMsg(e) == <<"Error getting responses: ", e>>
CancelledMsg == <<"Response generation was cancelled by user">>
NoResult == <<>>

IsErrorText(c) == c = TimeoutMsg \/ (Len(c) = 4 /\ c[1] = "Error getting response from ")

\* ------------------------------------------------------------ history store
Message(role, content, timestamp) ==
    [role |-> role, content |-> content, timestamp |-> timestamp]

\* Python slice s[-n:]; note s[-0:] is s[0:], the whole list.
SliceLast(s, n) ==
    IF n = 0 \/ n >= Len(s) THEN s
    ELSE SubSeq(s, Len(s) - n + 1, Len(s))

\* Variant: on overflow the oldest max_history messages are kept.
add_message_KeepOldest(h, role, content, ts) ==
    LET a == Append(h, Message(role, content, ts))
    IN  IF Len(a) > max_history THEN SubSeq(a, 1, max_history) ELSE a

\* Variant: the new message is put in front of the list.
add_message_Front(h, role, content, ts) ==
    LET a == <<Message(role, content, ts)>> \o h
    IN  IF Len(a) > max_history THEN SliceLast(a, max_history) ELSE a

\* Variant: an append made right after a role's entry overwrites that entry
\* (a lost update between two units finishing together).
add_message_LostUpdate(h, role, content, ts) ==
    LET m == Message(role, content, ts)
        a == IF h # <<>> /\ h[Len(h)].role \notin {"user", "system"}
             THEN [h EXCEPT ![Len(h)] = m] ELSE Append(h, m)
    IN  IF Len(a) > max_history THEN SliceLast(a, max_history) ELSE a

\* ContextManager.add_message, in-memory effect (the append and the trim
\* happen before _save_history and survive a failing save).
add_message(h, role, content, ts) ==
    LET a == Append(h, Message(role, content, ts))
    IN  IF Len(a) > max_history THEN SliceLast(a, max_history) ELSE a

\* ------------------------------------------------------------ state
VARIABLES
    pc,                 \* position of ChatApp.run
    should_exit,        \* ChatApp.should_exit
    current_task,       \* ChatApp.current_task: "None" or "gather"
    outer,              \* the gathering future: [state, cancel_requested]
    roles_and_messages, \* instructions of the dispatch in progress
    tasks,              \* one task per instruction
    history,            \* ContextManager.history
    responses,          \* results handed to the loop by the await (line 206)
    dispatch,           \* how the last dispatch ended
    settled,            \* unit indices in the order the tasks finished
    now,                \* wall clock
    t0,                 \* instant the units of the dispatch were started
    cancelAt,           \* instant cancellation was first requested, or -1
    graceStart,         \* instant asyncio.wait(tasks, timeout=5.0) began
    nDispatch,
    disk_ok,            \* the session files can be written
    files,              \* the cache directory: session name -> JSON file
    session_file,       \* ContextManager.session_file (session name)
    session_start,      \* ContextManager.session_start
    cap,                \* ContextManager.max_history of the store
    last,               \* last store operation called directly and its outcome
    snap,               \* what the last get_history call returned
    line,               \* a raw input line handed to extract_mentions
    parse,              \* what extract_mentions made of it
    shown               \* what the loop displayed for the last control line

vars == <<pc, should_exit, current_task, outer, roles_and_messages, tasks,
          history, responses, dispatch, settled, now, t0, cancelAt,
          graceStart, nDispatch, disk_ok, files, session_file,
          session_start, cap, last, snap, line, parse, shown>>

\* Store state that ChatApp.run and the units never assign.
storeOnly == <<session_file, session_start, cap, last, snap, line, parse,
               shown>>

\* Record of a direct call of a store method: the method, how it ended
\* ("None"/"True"/"False" returned, or "raised"), the kind of file a load
\* found, and the last_n of a get_history (NoLimit for None).
NoLimit == -1
Call(op, ret, file, n) == [op |-> op, ret |-> ret, file |-> file, n |-> n]
\* parse before extract_mentions was called.
NotParsed == [done |-> FALSE, shared |-> FALSE, result |-> <<>>]

NoCall == Call("none", "none", "none", NoLimit)

\* ContextManager.get_history(last_n).
get_history(h, last_n) == IF last_n = NoLimit THEN h ELSE SliceLast(h, last_n)

\* ------------------------------------------------------------ session files
SessionNames == {"s1", "s2"}

\* A timestamp written with a UTC offset: datetime.fromisoformat reads it
\* as an offset-aware datetime, which cannot be compared with the naive
\* datetimes of datetime.now().
Aware(t) == 100 + t
IsAware(ts) == ts >= 100

\* datetime.isoformat(): the date and time as text, followed by the UTC
\* offset when the datetime has one.
isoformat(ts) ==
    IF IsAware(ts) THEN [text |-> ts - 100, offset |-> "+00:00"]
    ELSE [text |-> ts, offset |-> ""]

\* datetime.fromisoformat()
fromisoformat(iso) == IF iso.offset = "" THEN iso.text ELSE Aware(iso.text)

\* Content of a session file: absent, not parseable, or the record written
\* by _save_history (lines 76-89).  The text rendering (lines 92-99) is
\* written next to it and never read back.
AbsentFile == [kind |-> "absent", session_start |-> isoformat(0), messages |-> <<>>]
CorruptFile == [kind |-> "corrupt", session_start |-> isoformat(0), messages |-> <<>>]

\* Lines 76-86: the record json.dump writes.
history_data(ss, h) ==
    [kind |-> "ok",
     session_start |-> isoformat(ss),
     messages |-> [k \in DOMAIN h |->
                     [role |-> h[k].role, content |-> h[k].content,
                      timestamp |-> isoformat(h[k].timestamp)]]]

\* Lines 146-153: the messages of a parsed file.
LoadedMessages(data) ==
    [k \in DOMAIN data.messages |->
        Message(data.messages[k].role, data.messages[k].content,
                fromisoformat(data.messages[k].timestamp))]

\* The cache directory after _save_history() of history h: the file of the
\* current session is rewritten, or nothing is when it cannot be written.
SavedAs(name, ss, h) ==
    IF disk_ok THEN [files EXCEPT ![name] = history_data(ss, h)] ELSE files

Saved(h) == SavedAs(session_file, session_start, h)

Instruction(role, text) == [role |-> role, text |-> text]

InstrSeqs ==
    UNION {[1..n -> {Instruction(r, t) : r \in RoleNames, t \in Texts}] : n \in 1..MaxInstr}

\* asyncio.create_task(self._process_agent_response(role_name, clean_message, status))
NewTask(instr) ==
    [role_name |-> instr.role, message |-> instr.text, st |-> "init",
     response |-> NoResult, result |-> NoResult, must_cancel |-> FALSE, client |-> "none", calls |-> 0]

Units == DOMAIN tasks

TaskDone(t) == t.st \in {"done", "cancelled", "raised"}

Min(S) == CHOOSE x \in S : \A y \in S : x <= y

Init ==
    /\ pc = "prompt"
    /\ should_exit = FALSE
    /\ current_task = "None"
    /\ outer = [state |-> "none", cancel_requested |-> FALSE]
    /\ roles_and_messages = <<>>
    /\ tasks = <<>>
    /\ history = <<>>
    /\ responses = <<>>
    /\ dispatch = "none"
    /\ settled = <<>>
    /\ now = 0
    /\ t0 = 0
    /\ cancelAt = -1
    /\ graceStart = 0
    /\ nDispatch = 0
    /\ disk_ok = TRUE
    /\ files = [f \in SessionNames |-> AbsentFile]
    /\ session_file = "s1"
    /\ session_start = 0
    /\ cap = max_history
    /\ last = NoCall
    /\ snap = <<>>
    /\ line = <<>>
    /\ parse = NotParsed
    /\ shown = <<>>

\* `while not self.should_exit` at the top of the loop.
LoopTop(exit) == IF exit THEN "exited" ELSE "prompt"


\* ------------------------------------------------------------ failure paths
\* _save_history opens and writes the session files; when they cannot be
\* written it raises OSError out of add_message/clear_history.  The files
\* are writable until DiskFails and unwritable from then on.
SaveError == "OSError"

\* `except Exception` of the loop body (lines 274-277): the error is shown
\* and recorded with add_message("system", ...), whose own save may fail,
\* in which case the exception leaves run().
ExceptOuter(h, e, ts) ==
    LET h1 == add_message(h, "system", <<e>>, ts)
    IN  [h |-> h1, crashed |-> ~disk_ok]

\* `except Exception` around the dispatch (lines 243-246), falling through
\* to the outer handler when its own add_message raises.
ExceptInner(h, e, ts) ==
    LET h1 == add_message(h, "system", DispatchErrorMsg(e), ts)
    IN  IF disk_ok THEN [h |-> h1, crashed |-> FALSE]
        ELSE ExceptOuter(h1, SaveError, ts)

\* Task.cancel(): a finished task ignores it, any other task is marked and
\* receives CancelledError at its next step.
TaskCancel(t) == IF TaskDone(t) THEN t ELSE [t EXCEPT !.must_cancel = TRUE]

CancelAll(ts) == [j \in DOMAIN ts |-> TaskCancel(ts[j])]

\* Texts a unit returns as its response when it did not get an answer.
IsFailureText(role_name, c) ==
    c \in {NotFoundMsg(role_name), TimeoutMsg, ApiErrorMsg(role_name),
           UnitErrorMsg(role_name, "AttributeError")}

\* Variant: a child that returned a failure text fails the whole gather.
GatherCallback_FailFast(o, ts, i) ==
    IF o.state # "pending" THEN o
    ELSE IF ts[i].st = "cancelled" THEN [o EXCEPT !.state = "cancelled"]
    ELSE IF ts[i].st = "raised" THEN [o EXCEPT !.state = "exception"]
    ELSE IF ts[i].st = "done" /\ IsFailureText(ts[i].role_name, ts[i].result[2])
         THEN [o EXCEPT !.state = "exception"]
    ELSE IF \A j \in DOMAIN ts : TaskDone(ts[j])
         THEN [o EXCEPT !.state = IF o.cancel_requested THEN "cancelled" ELSE "result"]
    ELSE o

\* Done-callback of asyncio.gather(*tasks) (return_exceptions=False), run
\* when child i has just finished; ts is the task list after that step.
GatherCallback(o, ts, i) ==
    IF o.state # "pending" THEN o
    ELSE IF ts[i].st = "cancelled" THEN [o EXCEPT !.state = "cancelled"]
    ELSE IF ts[i].st = "raised" THEN [o EXCEPT !.state = "exception"]
    ELSE IF \A j \in DOMAIN ts : TaskDone(ts[j])
         THEN [o EXCEPT !.state = IF o.cancel_requested THEN "cancelled" ELSE "result"]
    ELSE o

\* Variant: results collected in the order the children finished.
GatherResults_ByCompletion(ts) == [j \in DOMAIN ts |-> ts[settled[j]].result]

\* Result list of the gathering future: the children's return values by
\* child index.
GatherResults(ts) == [j \in DOMAIN ts |-> ts[j].result]

RECURSIVE AddUserEntries(_, _, _, _)
\* Lines 186-188: the first k instructions recorded as user entries.
AddUserEntries(h, instrs, k, ts) ==
    IF k = 0 THEN h
    ELSE add_message(AddUserEntries(h, instrs, k - 1, ts), "user",
                     format_role_message(instrs[k].role, instrs[k].text), ts)

\* ------------------------------------------------------------ the mention parser
\* A line is a sequence of characters; what matters to extract_mentions is
\* whether a character is '@', a word character (\w), whitespace or other.
WordChars == {"a", "b"}
Chars == {"@", " ", "."} \cup WordChars

IsWord(c) == c \in WordChars
IsSpace(c) == c = " "

Max(S) == CHOOSE x \in S : \A y \in S : x >= y

\* Python slice s[a:b] with 0 <= a, b <= len(s).
Slice(s, a, b) == SubSeq(s, a + 1, b)

\* str.strip()
strip(s) ==
    LET keep == {i \in DOMAIN s : ~IsSpace(s[i])}
    IN  IF keep = {} THEN <<>> ELSE SubSeq(s, Min(keep), Max(keep))

\* str.isspace(): at least one character and all of them whitespace.
isspace(s) == s # <<>> /\ \A i \in DOMAIN s : IsSpace(s[i])

RECURSIVE WordRunEnd(_, _)
\* Last position of the run of word characters that starts at position i.
WordRunEnd(s, i) ==
    IF i < Len(s) /\ IsWord(s[i + 1]) THEN WordRunEnd(s, i + 1) ELSE i

RECURSIVE SortedSeq(_)
SortedSeq(S) ==
    IF S = {} THEN <<>> ELSE <<Min(S)>> \o SortedSeq(S \ {Min(S)})

\* list(re.finditer(r'@(\w+)', message)): every '@' followed by a word
\* character starts a match, which runs to the end of the word; start
\* and end are the match's span() (0-based, end exclusive).
finditer(message) ==
    LET at == SortedSeq({i \in DOMAIN message :
                           /\ message[i] = "@"
                           /\ i < Len(message) /\ IsWord(message[i + 1])})
    IN  [k \in DOMAIN at |->
            [start |-> at[k] - 1, end |-> WordRunEnd(message, at[k] + 1)]]

\* match.group(1), the role name.
group1(message, match) == Slice(message, match.start + 1, match.end)

\* len(" ".join(m.group(0) for m in ms))
RECURSIVE JoinedLen(_)
JoinedLen(ms) ==
    IF ms = <<>> THEN 0
    ELSE (ms[1].end - ms[1].start)
           + (IF Len(ms) > 1 THEN 1 + JoinedLen(Tail(ms)) ELSE 0)

\* are_mentions_grouped (lines 34-42).
are_mentions_grouped(message, matches) ==
    \/ Len(matches) <= 1
    \/ \A i \in 1..(Len(matches) - 1) :
          isspace(Slice(message, matches[i].end, matches[i + 1].start))

RECURSIVE StartMentions(_, _, _, _)
\* The loop of lines 47-52; k is the next match, acc is start_mentions.
StartMentions(prefix, matches, k, acc) ==
    IF k > Len(matches) THEN acc
    ELSE IF matches[k].start < Len(prefix) + JoinedLen(acc)
         THEN StartMentions(prefix, matches, k + 1, Append(acc, matches[k]))
         ELSE acc

RECURSIVE EndMentions(_, _, _, _, _)
\* The loop of lines 57-62, over the matches from the last one backwards.
EndMentions(message, suffix, matches, k, acc) ==
    IF k < 1 THEN acc
    ELSE IF matches[k].end > Len(message) - Len(suffix) - JoinedLen(acc)
         THEN EndMentions(message, suffix, matches, k - 1, <<matches[k]>> \o acc)
         ELSE acc

\* Lines 45-72 for a stripped message with at least one match.
is_shared(message, matches) ==
    LET prefix == strip(Slice(message, 0, matches[1].start))
        suffix == strip(Slice(message, matches[Len(matches)].end, Len(message)))
        start_mentions == StartMentions(prefix, matches, 1, <<>>)
        end_mentions == EndMentions(message, suffix, matches, Len(matches), <<>>)
    IN  \/ Len(start_mentions) = Len(matches) /\ prefix = <<>>
        \/ Len(end_mentions) = Len(matches) /\ suffix = <<>>
        \/ are_mentions_grouped(message, matches)

\* Lines 75-85: the text every mentioned role gets.
shared_content(message, matches) ==
    LET prefix == strip(Slice(message, 0, matches[1].start))
        suffix == strip(Slice(message, matches[Len(matches)].end, Len(message)))
        start_mentions == StartMentions(prefix, matches, 1, <<>>)
        end_mentions == EndMentions(message, suffix, matches, Len(matches), <<>>)
        before == prefix
        after == suffix
    IN  IF Len(start_mentions) = Len(matches) THEN after
        ELSE IF Len(end_mentions) = Len(matches) THEN before
        ELSE IF Len(after) > Len(before) THEN after ELSE before

\* Variant: the text after a mention is taken without .strip().
segment_content_Raw(message, matches, i) ==
    IF i < Len(matches)
    THEN Slice(message, matches[i].end, matches[i + 1].start)
    ELSE Slice(message, matches[i].end, Len(message))

\* Lines 92-107: the text between mention i and the next one (or the end).
segment_content(message, matches, i) ==
    IF i < Len(matches)
    THEN strip(Slice(message, matches[i].end, matches[i + 1].start))
    ELSE strip(Slice(message, matches[i].end, Len(message)))

RECURSIVE Segments_Reversed(_, _, _)
\* Variant: the segments come out last mention first.
Segments_Reversed(message, matches, k) ==
    IF k = 0 THEN <<>>
    ELSE LET content == segment_content(message, matches, k)
             rest == Segments_Reversed(message, matches, k - 1)
         IN  IF content # <<>>
             THEN <<<<group1(message, matches[k]), content>>>> \o rest
             ELSE rest

RECURSIVE Segments(_, _, _)
\* segments after the first k matches were handled.
Segments(message, matches, k) ==
    IF k = 0 THEN <<>>
    ELSE LET content == segment_content(message, matches, k)
             rest == Segments(message, matches, k - 1)
         IN  IF content # <<>>
             THEN Append(rest, <<group1(message, matches[k]), content>>)
             ELSE rest

\* Variant: the Default role is handed the line as typed, untrimmed.
extract_mentions_RawDefault(raw) ==
    LET message == strip(raw)
        matches == finditer(message)
    IN  IF message = <<>> THEN <<>>
        ELSE IF matches = <<>> THEN <<<<<<"Default">>, raw>>>>
        ELSE IF is_shared(message, matches)
             THEN LET content == shared_content(message, matches)
                  IN  IF content = <<>> THEN <<>>
                      ELSE [i \in DOMAIN matches |->
                               <<group1(message, matches[i]), content>>]
        ELSE Segments(message, matches, Len(matches))

\* Variant: the shared branch without the `if not content` return.
extract_mentions_NoEmptyCheck(raw) ==
    LET message == strip(raw)
        matches == finditer(message)
    IN  IF message = <<>> THEN <<>>
        ELSE IF matches = <<>> THEN <<<<<<"Default">>, message>>>>
        ELSE IF is_shared(message, matches)
             THEN [i \in DOMAIN matches |->
                      <<group1(message, matches[i]),
                        shared_content(message, matches)>>]
        ELSE Segments(message, matches, Len(matches))

\* extract_mentions (text.py lines 7-107): (role_name, message) pairs.
extract_mentions(raw) ==
    LET message == strip(raw)
        matches == finditer(message)
    IN  IF message = <<>> THEN <<>>
        ELSE IF matches = <<>> THEN <<<<<<"Default">>, message>>>>
        ELSE IF is_shared(message, matches)
             THEN LET content == shared_content(message, matches)
                  IN  IF content = <<>> THEN <<>>
                      ELSE [i \in DOMAIN matches |->
                               <<group1(message, matches[i]), content>>]
        ELSE Segments(message, matches, Len(matches))

\* Whether extract_mentions takes the shared-message branch for the line.
is_shared_message(raw) ==
    LET message == strip(raw)
        matches == finditer(message)
    IN  matches # <<>> /\ is_shared(message, matches)

\* CommandProcessor.is_command
is_command(raw) == LET m == strip(raw) IN m # <<>> /\ m[1] = "/"

\* ------------------------------------------------------------ the loop
\* A non-command line whose parse is `instrs` (lines 178-206).  When the
\* files cannot be written the save of the first user entry raises.
InputMessage(instrs) ==
    /\ pc = "prompt"
    /\ nDispatch < MaxDispatches
    /\ now + ApiTimeout <= MaxTime
    /\ nDispatch' = nDispatch + 1
    /\ roles_and_messages' = instrs
    /\ responses' = <<>>
    /\ settled' = <<>>
    /\ cancelAt' = -1
    /\ t0' = now
    /\ IF disk_ok
       THEN /\ history' = AddUserEntries(history, instrs, Len(instrs), now)
            /\ tasks' = [j \in 1..Len(instrs) |-> NewTask(instrs[j])]
            /\ current_task' = "gather"
            /\ outer' = [state |-> "pending", cancel_requested |-> FALSE]
            /\ pc' = "gather"
            /\ dispatch' = "running"
       ELSE LET o == ExceptOuter(AddUserEntries(history, instrs, 1, now), SaveError, now) IN
            /\ history' = o.h
            /\ pc' = IF o.crashed THEN "crashed" ELSE LoopTop(should_exit)
            /\ tasks' = <<>>
            /\ dispatch' = "none"
            /\ UNCHANGED <<current_task, outer>>
    /\ files' = Saved(history')
    /\ UNCHANGED <<should_exit, now, graceStart, disk_ok, storeOnly>>

\* Lines the user types that the parser may leave without instructions,
\* next to one that is a command and one that has text for Default.
TypedLines ==
    { <<" ">>,
      <<"@", "a">>,
      <<"@", "a", " ", "@", "b">>,
      <<"@", "a", "@", "b">>,
      <<"/", "@", "a">>,
      <<".">> }

\* The typed lines that are no command and for which extract_mentions
\* returns no instruction (lines 173 and 179-182).
NoInstructions ==
    {l \in TypedLines : ~is_command(l) /\ extract_mentions(l) = <<>>}

\* Variant: a line without instructions goes on to the dispatch (lines
\* 186-206 with an empty list): a gather of no tasks is awaited.
InputSkip_Dispatch(l) ==
    /\ pc = "prompt"
    /\ l \in NoInstructions
    /\ roles_and_messages' = <<>>
    /\ tasks' = <<>>
    /\ responses' = <<>>
    /\ settled' = <<>>
    /\ current_task' = "gather"
    /\ outer' = [state |-> "pending", cancel_requested |-> FALSE]
    /\ pc' = "gather"
    /\ dispatch' = "running"
    /\ UNCHANGED <<should_exit, history, now, t0, cancelAt, graceStart,
                   nDispatch, disk_ok, files, storeOnly>>

\* A line that is no command and for which extract_mentions returns no
\* instruction (lines 160-164 and 177-183): `continue`.  A blank line
\* leaves the loop before extract_mentions is called.
InputSkip(l) ==
    /\ pc = "prompt"
    /\ l \in NoInstructions
    /\ IF strip(l) = <<>>
       THEN UNCHANGED <<roles_and_messages, dispatch>>
       ELSE /\ roles_and_messages' = <<>>
            /\ dispatch' = "none"
    /\ pc' = LoopTop(should_exit)
    /\ UNCHANGED <<should_exit, current_task, outer, tasks, history, responses,
                   settled, now, t0, cancelAt, graceStart, nDispatch, disk_ok,
                   files, storeOnly>>

\* exit / quit / /quit / /exit (lines 167-170).
InputQuit ==
    /\ pc = "prompt"
    /\ pc' = "exited"
    /\ UNCHANGED <<should_exit, current_task, outer, roles_and_messages, tasks,
                   history, responses, dispatch, settled, now, t0, cancelAt,
                   graceStart, nDispatch, disk_ok, files, storeOnly>>

\* /reset (CommandProcessor.cmd_reset -> ContextManager.clear_history).
InputReset ==
    /\ pc = "prompt"
    /\ history # <<>>
    /\ IF disk_ok
       THEN /\ history' = <<>>
            /\ pc' = LoopTop(should_exit)
       ELSE LET o == ExceptOuter(<<>>, SaveError, now) IN
            /\ history' = o.h
            /\ pc' = IF o.crashed THEN "crashed" ELSE LoopTop(should_exit)
    /\ files' = Saved(history')
    /\ UNCHANGED <<should_exit, current_task, outer, roles_and_messages, tasks,
                   responses, dispatch, settled, now, t0, cancelAt,
                   graceStart, nDispatch, disk_ok, storeOnly>>

\* ------------------------------------------------------------ commands
\* Control lines are made of '/', blanks and whole words.
\* str.lower() of such a piece.
Lower(c) == IF c = "QUIT" THEN "quit" ELSE c

lower(s) == [k \in DOMAIN s |-> Lower(s[k])]

RECURSIVE split(_)
\* str.split(): the maximal runs of non-blank characters.
split(s) ==
    IF strip(s) = <<>> THEN <<>>
    ELSE LET m  == strip(s)
             sp == {i \in DOMAIN m : IsSpace(m[i])}
             e  == IF sp = {} THEN Len(m) ELSE Min(sp) - 1
         IN  <<SubSeq(m, 1, e)>> \o split(SubSeq(m, e + 1, Len(m)))

\* CommandProcessor.commands: command word -> method.
commands ==
    [c \in {<<"/", "help">>, <<"/", "reset">>, <<"/", "reload">>,
            <<"/", "roles">>, <<"/", "quit">>, <<"/", "exit">>} |->
        CASE c = <<"/", "help">>   -> "cmd_help"
          [] c = <<"/", "reset">>  -> "cmd_reset"
          [] c = <<"/", "reload">> -> "cmd_reload"
          [] c = <<"/", "roles">>  -> "cmd_roles"
          [] OTHER                 -> "cmd_quit"]

Goodbye == <<"Goodbye!">>
UnknownCommandMsg(cmd) ==
    <<"Unknown command: ">> \o cmd \o <<". Type /help for available commands.">>

\* What each method returns.
CommandText(method) ==
    CASE method = "cmd_help"   -> <<"Available commands: ...">>
      [] method = "cmd_reset"  -> <<"Conversation history has been cleared.">>
      [] method = "cmd_reload" -> <<"Agent configurations have been reloaded.">>
      [] method = "cmd_roles"  -> <<"Available roles: ...">>
      [] method = "cmd_quit"   -> Goodbye

\* CommandProcessor.process_command: the method the line resolves to
\* ("None" when there is none) and the text returned.
process_command(command) ==
    LET parts == split(command)
        cmd == lower(parts[1])
    IN  IF cmd \in DOMAIN commands
        THEN [method |-> commands[cmd], response |-> CommandText(commands[cmd])]
        ELSE [method |-> "None", response |-> UnknownCommandMsg(cmd)]

\* Line 167: the words that end the loop.
QuitWords == {<<"exit">>, <<"quit">>, <<"/", "quit">>, <<"/", "exit">>}

\* Lines the user types to control the session.
ControlLines ==
    { <<"quit">>, <<"QUIT">>, <<"exit">>,
      <<"/", "quit">>, <<"/", "exit">>, <<"/", "QUIT">>,
      <<"/", "quit", " ", "now">>, <<"/", "exit", " ">>,
      <<"/", "reset">>, <<"/", "reset", " ", "now">>,
      <<"/", "help">>, <<"/", "reload">>, <<"/", "roles">>,
      <<"/", "foo">>, <<"/", "@", "a">>, <<"/">> }

\* One pass of the loop body for a control line (lines 160-176), with the
\* handler of lines 274-277 when clear_history raises.
InputLine(l) ==
    /\ pc = "prompt"
    /\ l \in ControlLines
    /\ line' = l
    /\ LET message == strip(l)      \* InputHandler.get_input
       IN  IF lower(message) \in QuitWords
           THEN /\ shown' = Goodbye
                /\ pc' = "exited"
                /\ UNCHANGED <<history, files>>
           ELSE LET r == process_command(message)
                    o == ExceptOuter(<<>>, SaveError, now)
                IN  IF r.method # "cmd_reset"
                    THEN /\ shown' = r.response
                         /\ pc' = LoopTop(should_exit)
                         /\ UNCHANGED <<history, files>>
                    ELSE IF disk_ok
                    THEN /\ shown' = r.response
                         /\ pc' = LoopTop(should_exit)
                         /\ history' = <<>>
                         /\ files' = Saved(history')
                    ELSE /\ shown' = <<SaveError>>
                         /\ pc' = IF o.crashed THEN "crashed" ELSE LoopTop(should_exit)
                         /\ history' = o.h
                         /\ files' = Saved(history')
    /\ UNCHANGED <<should_exit, current_task, outer, roles_and_messages, tasks,
                   responses, dispatch, settled, now, t0, cancelAt,
                   graceStart, nDispatch, disk_ok, session_file, session_start,
                   cap, last, snap, parse>>

\* ChatApp._handle_signal.
Signal ==
    /\ pc \in {"prompt", "gather", "grace"}
    /\ IF current_task = "gather" /\ outer.state = "pending"
       THEN /\ tasks' = CancelAll(tasks)
            /\ outer' = [outer EXCEPT !.cancel_requested =
                            outer.cancel_requested \/ \E j \in Units : ~TaskDone(tasks[j])]
            /\ cancelAt' = IF cancelAt = -1 THEN now ELSE cancelAt
            /\ UNCHANGED should_exit
       ELSE /\ should_exit' = TRUE
            /\ UNCHANGED <<tasks, outer, cancelAt>>
    /\ UNCHANGED <<pc, current_task, roles_and_messages, history, responses,
                   dispatch, settled, now, t0, graceStart, nDispatch, disk_ok,
                   files, storeOnly>>


\* ------------------------------------------------------------ the units
\* Tasks only step while run() has not returned or raised.
Alive == pc \notin {"exited", "crashed"}

\* The event loop runs first steps in task-creation order.
FirstStepTurn(i) ==
    /\ Alive
    /\ i \in Units
    /\ tasks[i].st = "init"
    /\ \A j \in Units : j < i => tasks[j].st # "init"

AllStarted == \A j \in Units : tasks[j].st # "init"

\* Task i finishes with new record t; the gathering future is told.
Finish(i, t) ==
    LET ts == [tasks EXCEPT ![i] = t]
    IN  /\ tasks' = ts
        /\ outer' = GatherCallback(outer, ts, i)
        /\ settled' = Append(settled, i)

\* Lines 128-139 once `response` is in hand: add_message(role_name, response);
\* if its save raises, the handler's add_message("system", ...) appends and
\* raises as well, and the exception leaves the task.
Record(i, response) ==
    LET t  == [tasks[i] EXCEPT !.response = response]
        h1 == add_message(history, t.role_name, response, now)
        error_msg == UnitErrorMsg(t.role_name, SaveError)
        h2 == add_message(h1, "system", error_msg, now)
    IN  IF disk_ok
        THEN /\ history' = h1
             /\ files' = Saved(h1)
             /\ Finish(i, [t EXCEPT !.st = "done", !.result = <<t.role_name, response>>])
        ELSE /\ history' = h2
             /\ files' = Saved(h2)
             /\ Finish(i, [t EXCEPT !.st = "raised"])

\* agent.py lines 84-93: the conversation part of the request, built from
\* the history handed in (the second argument at app.py line 123) and the
\* unit's own message, in the same step that issues the call.
request_messages(message, h) ==
    [k \in DOMAIN h |->
        [role |-> IF h[k].role = "user" THEN "user" ELSE "assistant",
         content |-> h[k].content]]
      \o <<[role |-> "user", content |-> message]>>

UnitFrame ==
    UNCHANGED <<pc, should_exit, current_task, roles_and_messages, responses,
                dispatch, now, t0, cancelAt, graceStart, nDispatch, disk_ok,
                storeOnly>>

\* First step of _process_agent_response (lines 102-123), up to the await
\* of the API call inside Agent.get_response (line 98).
UnitStart(i) ==
    /\ FirstStepTurn(i)
    /\ ~tasks[i].must_cancel
    /\ LET t == tasks[i]
           role_config == get_role_config(t.role_name)
           error_msg == UnitErrorMsg(t.role_name, "AttributeError")
       IN  CASE role_config = "None" ->
                  \* lines 106-107
                  /\ Finish(i, [t EXCEPT !.st = "done",
                                         !.result = <<t.role_name, NotFoundMsg(t.role_name)>>])
                  /\ UNCHANGED <<history, files>>
             [] role_config = "malformed" ->
                  \* Agent(...) raises; lines 136-139
                  /\ history' = add_message(history, "system", error_msg, now)
                  /\ files' = Saved(history')
                  /\ IF disk_ok
                     THEN Finish(i, [t EXCEPT !.st = "done",
                                              !.result = <<t.role_name, error_msg>>])
                     ELSE Finish(i, [t EXCEPT !.st = "raised"])
             [] OTHER ->
                  \* lines 111-123 and agent.py lines 74-98
                  /\ tasks' = [tasks EXCEPT ![i] = [t EXCEPT !.st = "call",
                                                             !.client = "open",
                                                             !.calls = t.calls + 1]]
                  /\ UNCHANGED <<outer, history, settled, files>>
    /\ UnitFrame

InCall(i) ==
    /\ Alive
    /\ i \in Units
    /\ tasks[i].st = "call"
    /\ ~tasks[i].must_cancel
    /\ AllStarted

\* The API call returns a completion (agent.py line 104).
ApiRespond(i, a) ==
    /\ InCall(i)
    /\ now <= t0 + ApiTimeout
    /\ Record(i, <<a>>)
    /\ UnitFrame

\* Variant: a failed call is issued once more instead of being reported.
ApiError_Retry(i) ==
    /\ InCall(i)
    /\ now <= t0 + ApiTimeout
    /\ IF tasks[i].calls < 2
       THEN /\ tasks' = [tasks EXCEPT ![i].calls = @ + 1]
            /\ UNCHANGED <<outer, history, settled, files>>
       ELSE Record(i, ApiErrorMsg(tasks[i].role_name))
    /\ UnitFrame

\* The API call raises; Agent.get_response turns it into text (line 113).
ApiError(i) ==
    /\ InCall(i)
    /\ now <= t0 + ApiTimeout
    /\ Record(i, ApiErrorMsg(tasks[i].role_name))
    /\ UnitFrame

\* Variant: the call is awaited without a timeout, so no timer ever fires.
Timeout_NoTimer(i) ==
    /\ InCall(i)
    /\ FALSE
    /\ UNCHANGED vars

\* asyncio.timeout(30) expires (agent.py lines 97, 105-106).
Timeout(i) ==
    /\ InCall(i)
    /\ now >= t0 + ApiTimeout
    /\ Record(i, TimeoutMsg)
    /\ UnitFrame

\* CancelledError is thrown into task i at its next step.
CancelDeliver(i) ==
    /\ Alive
    /\ i \in Units
    /\ tasks[i].must_cancel
    /\ ~TaskDone(tasks[i])
    /\ tasks[i].st = "init" => FirstStepTurn(i)
    /\ LET t == [tasks[i] EXCEPT !.must_cancel = FALSE]
       IN  IF t.st = "call"
           \* agent.py lines 107-109: await self.client.close()
           THEN /\ tasks' = [tasks EXCEPT ![i] = [t EXCEPT !.st = "closing"]]
                /\ UNCHANGED <<outer, settled>>
           \* not started, or interrupted inside client.close()
           ELSE Finish(i, [t EXCEPT !.st = "cancelled"])
    /\ UNCHANGED <<history, files>>
    /\ UnitFrame

\* client.close() returns; the unit re-raises CancelledError (line 110, 135).
CloseDone(i) ==
    /\ Alive
    /\ i \in Units
    /\ tasks[i].st = "closing"
    /\ ~tasks[i].must_cancel
    /\ Finish(i, [tasks[i] EXCEPT !.st = "cancelled", !.client = "closed"])
    /\ UNCHANGED <<history, files>>
    /\ UnitFrame

\* The handlers are installed with signal.signal (lines 143-144), so Python
\* runs _handle_signal between two bytecodes of whatever the main thread is
\* executing.  Here it runs inside the last step of unit i, after the API
\* call returned (lines 121-130): current_task.cancel() marks the running
\* task and its siblings, the step goes on to add_message and `return`,
\* and Task.__step finds the mark at StopIteration and ends the task as
\* cancelled instead of storing the result.
SignalInStep(i, a) ==
    /\ InCall(i)
    /\ now <= t0 + ApiTimeout
    /\ pc = "gather" /\ current_task = "gather" /\ outer.state = "pending"
    /\ disk_ok
    /\ LET t  == [tasks[i] EXCEPT !.response = <<a>>, !.st = "cancelled"]
           ts == [CancelAll(tasks) EXCEPT ![i] = t]
       IN  /\ tasks' = ts
           /\ outer' = GatherCallback([outer EXCEPT !.cancel_requested = TRUE], ts, i)
           /\ settled' = Append(settled, i)
           /\ history' = add_message(history, t.role_name, <<a>>, now)
    /\ files' = Saved(history')
    /\ cancelAt' = IF cancelAt = -1 THEN now ELSE cancelAt
    /\ UNCHANGED <<pc, should_exit, current_task, roles_and_messages, responses,
                   dispatch, now, t0, graceStart, nDispatch, disk_ok, storeOnly>>

\* ------------------------------------------------------------ end of a dispatch
\* run() resumes from `await self.current_task` (line 206) once the
\* gathering future is done.
RunResume ==
    /\ pc = "gather"
    /\ outer.state \in {"result", "cancelled", "exception"}
    /\ CASE outer.state = "result" ->
              \* lines 206-213, then the finally block
              /\ responses' = GatherResults(tasks)
              /\ dispatch' = "returned"
              /\ current_task' = "None"
              /\ tasks' = CancelAll(tasks)
              /\ pc' = LoopTop(should_exit)
              /\ UNCHANGED <<history, files, graceStart>>
         [] outer.state = "cancelled" ->
              \* lines 214-225
              /\ tasks' = CancelAll(tasks)
              /\ pc' = "grace"
              /\ graceStart' = now
              /\ UNCHANGED <<responses, dispatch, current_task, history, files>>
         [] outer.state = "exception" ->
              \* the finally block, then lines 243-246
              /\ current_task' = "None"
              /\ tasks' = CancelAll(tasks)
              /\ dispatch' = "error"
              /\ LET o == ExceptInner(history, SaveError, now) IN
                    /\ history' = o.h
                    /\ pc' = IF o.crashed THEN "crashed" ELSE LoopTop(should_exit)
              /\ files' = Saved(history')
              /\ UNCHANGED <<responses, graceStart>>
    /\ UNCHANGED <<should_exit, outer, roles_and_messages, settled, now, t0,
                   cancelAt, nDispatch, disk_ok, storeOnly>>

\* asyncio.wait(tasks, timeout=5.0) returns (line 225): every task is done
\* or the timeout has passed.  Lines 229-241 follow.
GraceEnd ==
    /\ pc = "grace"
    /\ \/ \A j \in Units : TaskDone(tasks[j])
       \/ now >= graceStart + Grace
    /\ current_task' = "None"
    /\ tasks' = CancelAll(tasks)
    /\ dispatch' = "cancelled"
    /\ LET h1 == add_message(history, "system", CancelledMsg, now)
       IN  IF disk_ok
           THEN /\ history' = h1
                /\ pc' = LoopTop(should_exit)
           ELSE LET o == ExceptInner(h1, SaveError, now) IN
                /\ history' = o.h
                /\ pc' = IF o.crashed THEN "crashed" ELSE LoopTop(should_exit)
    /\ files' = Saved(history')
    /\ UNCHANGED <<should_exit, outer, roles_and_messages, responses, settled,
                   now, t0, cancelAt, graceStart, nDispatch, disk_ok, storeOnly>>

\* ------------------------------------------------------------ time
\* Callbacks that are ready run before the loop sleeps again.
LoopBusy ==
    \/ pc = "gather" /\ outer.state # "pending"
    \/ pc = "grace" /\ \A j \in Units : TaskDone(tasks[j])
    \/ \E j \in Units : tasks[j].st = "init" \/ (tasks[j].must_cancel /\ ~TaskDone(tasks[j]))

\* Instants at which a pending timer fires.
Deadlines ==
    {t0 + ApiTimeout : j \in {k \in Units : tasks[k].st = "call"}}
        \cup (IF pc = "grace" THEN {graceStart + Grace} ELSE {})

Tick ==
    /\ pc \in {"gather", "grace"}
    /\ ~LoopBusy
    /\ now < MaxTime
    /\ \A d \in Deadlines : now < d
    /\ now' = Min({now + Quantum, MaxTime} \cup Deadlines)
    /\ UNCHANGED <<pc, should_exit, current_task, outer, roles_and_messages,
                   tasks, history, responses, dispatch, settled, t0, cancelAt,
                   graceStart, nDispatch, disk_ok, files, storeOnly>>

\* ------------------------------------------------------------ environment
\* The session files stop being writable (disk full, directory removed).
DiskFails ==
    /\ Alive
    /\ disk_ok
    /\ disk_ok' = FALSE
    /\ UNCHANGED <<pc, should_exit, current_task, outer, roles_and_messages,
                   tasks, history, responses, dispatch, settled, now, t0,
                   cancelAt, graceStart, nDispatch, files, storeOnly>>

\* ------------------------------------------------------------ the store alone
\* ContextManager driven directly: any capacity, any order of add_message,
\* clear_history, load_history and get_history, with session files that
\* an earlier or another process left in the cache directory.
appVars == <<pc, should_exit, current_task, outer, roles_and_messages, tasks,
             responses, dispatch, settled, t0, cancelAt, graceStart, nDispatch,
             line, parse, shown>>

Stamps == 0..MaxStamp

\* Message lists a session file on disk may hold; the timestamps are
\* whatever the writer put there.
FileMessages ==
    UNION {[1..n -> {Message("user", <<"f">>, t) : t \in Stamps}] : n \in 0..MaxFileLen}

\* A session file whose two messages carry a naive and an aware timestamp.
MixedFile ==
    history_data(0, <<Message("user", <<"f">>, 0), Message("user", <<"f">>, Aware(0))>>)

StoreInit ==
    /\ pc = "prompt"
    /\ should_exit = FALSE
    /\ current_task = "None"
    /\ outer = [state |-> "none", cancel_requested |-> FALSE]
    /\ roles_and_messages = <<>>
    /\ tasks = <<>>
    /\ responses = <<>>
    /\ dispatch = "none"
    /\ settled = <<>>
    /\ t0 = 0
    /\ cancelAt = -1
    /\ graceStart = 0
    /\ nDispatch = 0
    /\ history = <<>>
    /\ now = 0
    /\ disk_ok = TRUE
    /\ cap \in 0..MaxCap
    /\ session_file = "s1"
    /\ session_start = 0
    /\ \E f \in {AbsentFile, CorruptFile, MixedFile}
                  \cup {history_data(0, ms) : ms \in FileMessages} :
          files = [n \in SessionNames |-> IF n = "s2" THEN f ELSE AbsentFile]
    /\ last = NoCall
    /\ snap = <<>>
    /\ line = <<>>
    /\ parse = NotParsed
    /\ shown = <<>>

\* Variant: on overflow the oldest c messages are kept.
Trim_KeepOldest(h, c) == IF Len(h) > c THEN SubSeq(h, 1, c) ELSE h

\* `if len(self.history) > self.max_history: self.history = self.history[-self.max_history:]`
Trim(h, c) == IF Len(h) > c THEN SliceLast(h, c) ELSE h

\* list.sort(key=lambda x: x.timestamp): stable, by insertion.
InsertByTimestamp(s, m) ==
    LET k == Cardinality({i \in DOMAIN s : s[i].timestamp <= m.timestamp})
    IN  SubSeq(s, 1, k) \o <<m>> \o SubSeq(s, k + 1, Len(s))

RECURSIVE SortByTimestamp(_)
SortByTimestamp(s) ==
    IF s = <<>> THEN <<>>
    ELSE InsertByTimestamp(SortByTimestamp(SubSeq(s, 1, Len(s) - 1)), s[Len(s)])

\* Lines 156-164 of load_history: the loaded messages whose timestamp is
\* not among the timestamps h had are appended to h; an empty h is replaced.
MergedList(h, loaded_messages) ==
    LET existing_timestamps == {h[i].timestamp : i \in DOMAIN h}
        IsNew(m) == m.timestamp \notin existing_timestamps
    IN  IF h # <<>> THEN h \o SelectSeq(loaded_messages, IsNew)
        ELSE loaded_messages

\* Variant: the merged list is ordered newest first.
MergeLoaded_NewestFirst(h, loaded_messages, c) ==
    LET s == SortByTimestamp(MergedList(h, loaded_messages))
    IN  Trim([k \in DOMAIN s |-> s[Len(s) + 1 - k]], c)

\* Lines 156-171 of load_history: merge, sort, trim.
MergeLoaded(h, loaded_messages, c) ==
    Trim(SortByTimestamp(MergedList(h, loaded_messages)), c)

\* list.sort raises TypeError when it compares a naive with an aware
\* timestamp, which it must when the list holds both.
SortRaises(s) ==
    \E i, j \in DOMAIN s : IsAware(s[i].timestamp) # IsAware(s[j].timestamp)

\* The list a raising sort leaves behind (lists shorter than 64): the
\* elements before the first one it could not compare are in order, the
\* others are where they were.
LeftBySort(s) ==
    LET k == Min({i \in DOMAIN s : IsAware(s[i].timestamp) # IsAware(s[1].timestamp)})
    IN  SortByTimestamp(SubSeq(s, 1, k - 1)) \o SubSeq(s, k, Len(s))

\* The store is small enough to go on.
StoreRoom == Len(history) <= MaxCap

\* ContextManager.add_message(role, content).
AddMessage(role, content) ==
    /\ StoreRoom
    /\ history' = Trim(Append(history, Message(role, content, now)), cap)
    /\ files' = Saved(history')
    /\ last' = Call("add_message", IF disk_ok THEN "None" ELSE "raised", "none", NoLimit)
    /\ UNCHANGED <<appVars, now, disk_ok, session_file, session_start, cap, snap>>

\* ContextManager.clear_history().
ClearHistory ==
    /\ history' = <<>>
    /\ files' = Saved(history')
    /\ last' = Call("clear_history", IF disk_ok THEN "None" ELSE "raised", "none", NoLimit)
    /\ UNCHANGED <<appVars, now, disk_ok, session_file, session_start, cap, snap>>

\* ContextManager.get_history(last_n).
GetHistory(last_n) ==
    /\ snap' = get_history(history, last_n)
    /\ last' = Call("get_history", "None", "none", last_n)
    /\ UNCHANGED <<appVars, history, files, now, disk_ok, session_file,
                   session_start, cap>>

\* ContextManager.load_history(filename).
LoadHistory(name) ==
    /\ StoreRoom
    /\ session_file' = name
    /\ LET f == files[name] IN
       CASE f.kind = "absent" ->
              \* lines 131-136
              /\ UNCHANGED <<history, session_start>>
              /\ IF history = <<>>
                 THEN /\ files' = SavedAs(name, session_start, history)
                      /\ last' = Call("load_history",
                                      IF disk_ok THEN "True" ELSE "raised", f.kind, NoLimit)
                 ELSE /\ UNCHANGED files
                      /\ last' = Call("load_history", "True", f.kind, NoLimit)
         [] f.kind = "corrupt" ->
              \* json.load raises; lines 192-194
              /\ UNCHANGED <<history, session_start, files>>
              /\ last' = Call("load_history", "False", f.kind, NoLimit)
         [] f.kind = "ok" /\ SortRaises(MergedList(history, LoadedMessages(f))) ->
              \* lines 139-167; the sort raises after the merge, lines 192-194
              /\ session_start' = fromisoformat(f.session_start)
              /\ history' = LeftBySort(MergedList(history, LoadedMessages(f)))
              /\ UNCHANGED files
              /\ last' = Call("load_history", "False", f.kind, NoLimit)
         [] OTHER ->
              \* lines 139-191; a failing save at line 190 is caught at 192
              /\ session_start' = fromisoformat(f.session_start)
              /\ history' = MergeLoaded(history, LoadedMessages(f), cap)
              /\ files' = SavedAs(name, session_start', history')
              /\ last' = Call("load_history",
                              IF disk_ok THEN "True" ELSE "False", f.kind, NoLimit)
    /\ UNCHANGED <<appVars, now, disk_ok, cap, snap>>

\* The clock moves on between two calls.
StoreTick ==
    /\ now < MaxStamp
    /\ now' = now + 1
    /\ UNCHANGED <<appVars, history, files, disk_ok, session_file, session_start,
                   cap, last, snap>>

StoreNext ==
    \/ \E c \in {"x"} : AddMessage("user", <<c>>)
    \/ ClearHistory
    \/ \E name \in SessionNames : LoadHistory(name)
    \/ StoreTick
    \/ DiskFails

StoreSpec == StoreInit /\ [][StoreNext]_vars

\* get_history alone: any history the store can hold, any last_n.
SnapInit ==
    /\ StoreInit
    /\ files = [n \in SessionNames |-> AbsentFile]

SnapNext ==
    \/ \E c \in {"x", "y"} : AddMessage("user", <<c>>)
    \/ \E n \in NoLimit..(MaxCap + 1) : GetHistory(n)
    \/ StoreTick

SnapSpec == SnapInit /\ [][SnapNext]_vars

\* ------------------------------------------------------------ the parser alone
\* extract_mentions is a pure function of the line; it is applied here to
\* every line of up to MaxMsgLen characters.
ParseInit ==
    /\ pc = "prompt"
    /\ should_exit = FALSE
    /\ current_task = "None"
    /\ outer = [state |-> "none", cancel_requested |-> FALSE]
    /\ roles_and_messages = <<>>
    /\ tasks = <<>>
    /\ responses = <<>>
    /\ dispatch = "none"
    /\ settled = <<>>
    /\ t0 = 0
    /\ cancelAt = -1
    /\ graceStart = 0
    /\ nDispatch = 0
    /\ history = <<>>
    /\ now = 0
    /\ disk_ok = TRUE
    /\ cap = max_history
    /\ session_file = "s1"
    /\ session_start = 0
    /\ files = [n \in SessionNames |-> AbsentFile]
    /\ last = NoCall
    /\ snap = <<>>
    /\ \E n \in 0..MaxMsgLen : line \in [1..n -> Chars]
    /\ parse = NotParsed
    /\ shown = <<>>

\* roles_and_messages = extract_mentions(message)
Parse ==
    /\ ~parse.done
    /\ parse' = [done |-> TRUE,
                 shared |-> is_shared_message(line),
                 result |-> extract_mentions(line)]
    /\ UNCHANGED <<pc, should_exit, current_task, outer, roles_and_messages,
                   tasks, history, responses, dispatch, settled, now, t0,
                   cancelAt, graceStart, nDispatch, disk_ok, files,
                   session_file, session_start, cap, last, snap, line, shown>>

ParseSpec == ParseInit /\ [][Parse]_vars

\* ------------------------------------------------------------ specification
Next ==
    \/ \E instrs \in InstrSeqs : InputMessage(instrs)
    \/ InputQuit
    \/ InputReset
    \/ Signal
    \/ DiskFails
    \/ \E i \in 1..MaxInstr : UnitStart(i)
    \/ \E i \in 1..MaxInstr : \E a \in Answers : ApiRespond(i, a)
    \/ \E i \in 1..MaxInstr : ApiError(i)
    \/ \E i \in 1..MaxInstr : Timeout(i)
    \/ \E i \in 1..MaxInstr : CancelDeliver(i)
    \/ \E i \in 1..MaxInstr : CloseDone(i)
    \/ RunResume
    \/ GraceEnd
    \/ Tick

Spec == Init /\ [][Next]_vars

\* The steps of a session whose files stay writable.
NextWritable ==
    \/ \E instrs \in InstrSeqs : InputMessage(instrs)
    \/ InputQuit
    \/ InputReset
    \/ Signal
    \/ \E i \in 1..MaxInstr : UnitStart(i)
    \/ \E i \in 1..MaxInstr : \E a \in Answers : ApiRespond(i, a)
    \/ \E i \in 1..MaxInstr : ApiError(i)
    \/ \E i \in 1..MaxInstr : Timeout(i)
    \/ \E i \in 1..MaxInstr : CancelDeliver(i)
    \/ \E i \in 1..MaxInstr : CloseDone(i)
    \/ RunResume
    \/ GraceEnd
    \/ Tick

\* The event loop runs every callback that is ready and fires every timer
\* that is due; the API, client.close(), the user and signals are free.
FairSpec ==
    /\ Init /\ [][NextWritable]_vars
    /\ WF_vars(Tick)
    /\ WF_vars(RunResume)
    /\ WF_vars(GraceEnd)
    /\ \A i \in 1..MaxInstr :
          /\ WF_vars(UnitStart(i))
          /\ WF_vars(Timeout(i))
          /\ WF_vars(CancelDeliver(i))

\* The loop with the lines that lead to nothing: blank lines and lines for
\* which extract_mentions returns no instruction.
LoopNext ==
    \/ NextWritable
    \/ \E l \in TypedLines : InputSkip(l)

LoopSpec == Init /\ [][LoopNext]_vars

\* The loop with the control lines typed out.
CommandNext ==
    \/ Next
    \/ \E l \in ControlLines : InputLine(l)

CommandSpec == Init /\ [][CommandNext]_vars

\* The application with signals that arrive while a unit's step runs.
SignalNext ==
    \/ Next
    \/ \E i \in 1..MaxInstr : \E a \in Answers : SignalInStep(i, a)

SignalSpec == Init /\ [][SignalNext]_vars


\* ============================================================ properties
IsAnswer(c) == \E a \in Answers : c = <<a>>

Ended == dispatch \in {"returned", "cancelled", "error"}

\* C1: when the wait of a dispatch returns its results to the loop, there
\* is one result per instruction and the i-th result is what the unit of
\* the i-th instruction returned, whatever order the units finished in.
C1_ResultsInInstructionOrder ==
    dispatch = "returned" =>
        /\ Len(responses) = Len(roles_and_messages)
        /\ \A i \in DOMAIN responses :
              /\ responses[i][1] = roles_and_messages[i].role
              /\ responses[i] = tasks[i].result

\* A returned dispatch whose second unit finished first with another answer.
C1_Witness ==
    /\ dispatch = "returned"
    /\ settled = <<2, 1>>
    /\ IsAnswer(responses[1][2]) /\ IsAnswer(responses[2][2])
    /\ responses[1] # responses[2]

\* C2: every way a dispatch ends hands the loop one result per instruction.
C2_OneResultPerInstruction ==
    Ended => Len(responses) = Len(roles_and_messages)

\* C3: after a cancelled dispatch, the result of every unit that had
\* answered is among the results delivered for the dispatch.
C3_CompletedResultsSurviveCancel ==
    dispatch = "cancelled" =>
        \A i \in Units :
            (tasks[i].st = "done" /\ IsAnswer(tasks[i].result[2])) =>
                (i \in DOMAIN responses /\ responses[i] = tasks[i].result)


\* Unit i returned a failed, timed-out or not-found result.
FailedOutcome(t) ==
    t.st = "done" /\ IsFailureText(t.role_name, t.result[2])

SameDispatch == nDispatch' = nDispatch /\ DOMAIN tasks' = DOMAIN tasks

\* The step in which unit i returns a failure result leaves every sibling
\* task as it was and does not fail or cancel the gathering future.
C4_FailureStep ==
    \A i \in Units :
        (SameDispatch /\ ~TaskDone(tasks[i]) /\ FailedOutcome(tasks'[i])) =>
            /\ \A j \in Units \ {i} : tasks'[j] = tasks[j]
            /\ outer'.state # outer.state => outer'.state = "result"

\* A sibling is only ever told to stop after a signal cancelled the wait
\* or a task raised; when every unit returned and no signal was handled,
\* the gathering future carries the results.
C4_NoCollateralCancel ==
    /\ \A j \in Units :
          (tasks[j].must_cancel \/ tasks[j].st \in {"closing", "cancelled"}) =>
              (cancelAt # -1 \/ \E k \in Units : tasks[k].st = "raised")
    /\ (dispatch = "running" /\ cancelAt = -1 /\ \A j \in Units : tasks[j].st = "done") =>
          outer.state = "result"

NotFoundStep(i) ==
    /\ SameDispatch
    /\ tasks[i].st = "init" /\ ~tasks[i].must_cancel
    /\ tasks'[i].st # "init"
    /\ tasks[i].role_name \notin DOMAIN roles

\* C5: a unit whose role does not resolve returns the not-found text naming
\* the role in its first step, issues no API call, leaves the history and
\* its siblings untouched and does not fail the gathering future.
C5_NotFound ==
    [][\A i \in Units : NotFoundStep(i) =>
          /\ tasks'[i].st = "done"
          /\ tasks'[i].result = <<roles_and_messages[i].role,
                                  NotFoundMsg(roles_and_messages[i].role)>>
          /\ tasks'[i].calls = 0 /\ tasks'[i].client = "none"
          /\ history' = history
          /\ \A j \in Units \ {i} : tasks'[j] = tasks[j]
          /\ outer'.state # outer.state => outer'.state = "result"]_vars

\* A not-found unit has returned and the sibling after it is in its call.
C5_Witness ==
    /\ Len(tasks) = 2
    /\ tasks[1].result = <<"Ghost", NotFoundMsg("Ghost")>>
    /\ tasks[1].calls = 0
    /\ tasks[2].st = "call" /\ tasks[2].calls = 1


\* Unit i returns the API's answer in this step.
SuccessStep(i) ==
    /\ SameDispatch
    /\ ~TaskDone(tasks[i])
    /\ tasks'[i].st = "done" /\ IsAnswer(tasks'[i].result[2])

\* h2 is h1 with exactly one message appended, the oldest evicted on overflow.
OneAppended(h1, h2) ==
    LET n == Len(h2)
    IN  /\ n >= 1
        /\ n = Len(h1) + 1 \/ (n = max_history /\ Len(h1) >= max_history)
        /\ SubSeq(h2, 1, n - 1) = SubSeq(h1, Len(h1) - (n - 1) + 1, Len(h1))

\* C6: the step in which a unit returns its answer appends exactly one
\* entry, speaker the instruction's role and content the answer; the
\* unit's earlier step, which starts the call, appends nothing.
C6_OneEntryPerSuccess ==
    [][\A i \in Units :
          /\ SuccessStep(i) =>
                /\ OneAppended(history, history')
                /\ history'[Len(history')].role = roles_and_messages[i].role
                /\ history'[Len(history')].content = tasks'[i].result[2]
          /\ (SameDispatch /\ tasks[i].st = "init" /\ tasks'[i].st = "call") =>
                history' = history]_vars

\* Both units answered and the oldest entry was evicted to make room.
C6_Witness ==
    /\ Len(tasks) = 2
    /\ \A i \in Units : tasks[i].st = "done" /\ IsAnswer(tasks[i].result[2])
    /\ Len(history) = max_history
    /\ history[max_history].role = "Tech" /\ IsAnswer(history[max_history].content)
    /\ history[max_history - 1].role = "Tech"

\* C7: an error or timeout text of the API call is recorded under the
\* system speaker only, never under the role's own name.
C7_ErrorsUnderSystemSpeaker ==
    \A k \in DOMAIN history :
        IsErrorText(history[k].content) => history[k].role = "system"

RoleEntry(m) == m.role \notin {"user", "system"}

\* (speaker, content) of the role entries of h, in order.
RoleEntries(h) ==
    LET r == SelectSeq(h, RoleEntry)
    IN  [k \in DOMAIN r |-> <<r[k].role, r[k].content>>]

RECURSIVE SettledEntries(_)
\* (role, response) of the units that obtained a response, in the order
\* the units finished; k is the prefix of `settled` taken.
SettledEntries(k) ==
    IF k = 0 THEN <<>>
    ELSE LET t == tasks[settled[k]]
         IN  IF t.response = NoResult THEN SettledEntries(k - 1)
             ELSE Append(SettledEntries(k - 1), <<t.role_name, t.response>>)

LastOf(s, n) == SubSeq(s, Len(s) - n + 1, Len(s))

\* C8: the role entries in the history are, as far as they were not
\* evicted, the responses of the units in the order the units finished.
C8_HistoryInCompletionOrder ==
    LET A == RoleEntries(history)
        E == SettledEntries(Len(settled))
        n == IF Len(A) <= Len(E) THEN Len(A) ELSE Len(E)
    IN  LastOf(A, n) = LastOf(E, n)

\* The second unit answered before the first, with different answers, and
\* the history shows them in that order.
C8_Witness ==
    /\ settled = <<2, 1>>
    /\ IsAnswer(tasks[1].response) /\ IsAnswer(tasks[2].response)
    /\ tasks[1].response # tasks[2].response
    /\ Len(history) >= 2
    /\ history[Len(history) - 1].content = tasks[2].response
    /\ history[Len(history)].content = tasks[1].response


\* C9: once cancellation of a dispatch was requested, the loop is back at
\* the prompt no later than the grace period afterwards.
C9_CancelBoundedByGrace ==
    (cancelAt # -1 /\ pc \in {"gather", "grace"}) => now - cancelAt <= Grace

\* A unit awaiting its API call is never past its timeout, can settle
\* whatever state its siblings are in, and at the timeout the timer fires.
C10_UnitNotBlocked ==
    \A i \in Units :
        (Alive /\ AllStarted /\ tasks[i].st = "call" /\ ~tasks[i].must_cancel) =>
            /\ now <= t0 + ApiTimeout
            /\ \A a \in Answers : ENABLED ApiRespond(i, a)
            /\ now = t0 + ApiTimeout => ENABLED Timeout(i)

\* A unit whose response is the timeout text got it at its timeout instant
\* and, when it returns, returns it.
C10_TimeoutResult ==
    \A i \in Units :
        tasks[i].response = TimeoutMsg =>
            /\ now >= t0 + ApiTimeout
            /\ tasks[i].st = "done" => tasks[i].result = <<tasks[i].role_name, TimeoutMsg>>

\* C10: a call that reaches the timeout settles with the timeout text,
\* siblings settle without waiting for it, and a dispatch that is not
\* cancelled always leaves the wait.
C10_TimeoutDoesNotBlock ==
    /\ [](C10_UnitNotBlocked /\ C10_TimeoutResult)
    /\ (pc = "gather" /\ cancelAt = -1) ~> (pc # "gather" \/ cancelAt # -1)

\* The second unit answered at once, the first timed out, and the dispatch
\* returned both.
C10_Witness ==
    /\ dispatch = "returned"
    /\ settled = <<2, 1>>
    /\ responses[1] = <<"Tech", TimeoutMsg>>
    /\ IsAnswer(responses[2][2])
    /\ \E k \in DOMAIN history :
          /\ history[k].content = responses[2][2]
          /\ history[k].timestamp < t0 + ApiTimeout


UnitSystemEntries ==
    Cardinality({i \in Units : /\ TaskDone(tasks[i])
                               /\ get_role_config(tasks[i].role_name) = "malformed"
                               /\ tasks[i].st # "cancelled"})
      + Cardinality({i \in Units : tasks[i].st = "raised" /\ tasks[i].response # NoResult})

\* C12: while a dispatch runs, the history never exceeds max_history, no
\* entry appended by a unit is missing short of eviction, and the role
\* entries among them are exactly the responses of the units that
\* finished, each once, in finishing order.
C12_AppendsSerialized ==
    /\ Len(history) <= max_history
    /\ dispatch = "running" =>
          LET E == SettledEntries(Len(settled))
              T == Len(E) + UnitSystemEntries
          IN  /\ Len(history) >= Min({T, max_history})
              /\ T <= max_history => RoleEntries(LastOf(history, T)) = E

\* Two units obtained the same answer one after the other; both entries
\* are in the history, which is full, while the dispatch is still running.
C12_Witness ==
    /\ dispatch = "running"
    /\ Len(settled) = 2
    /\ Len(history) = max_history
    /\ IsAnswer(tasks[1].response) /\ tasks[2].response = tasks[1].response
    /\ Len(RoleEntries(history)) = 2

\* C13: a failing save while a unit records its response does not make
\* the unit raise, the dispatch fail or the loop end.
C13_SaveFailureContained ==
    /\ \A i \in Units : tasks[i].st # "raised"
    /\ dispatch # "error"
    /\ pc # "crashed"

\* ------------------------------------------------------------ store properties
\* C14: the in-memory history never holds more messages than the capacity
\* of the store, for every capacity from 0 on.
C14_BoundedByCapacity == Len(history) <= cap

\* C15: add_message on history h leaves the most recent
\* min(Len(h) + 1, capacity) messages of h followed by the new message:
\* the new message is last, on overflow the oldest one is dropped and the
\* kept messages keep their order (capacities of one message or more).
C15_AppendEvictsOldest ==
    [][\A c \in {"x"} :
          (AddMessage("user", <<c>>) /\ cap >= 1) =>
              LET m == Message("user", <<c>>, now)
                  n == Min({Len(history) + 1, cap})
              IN  /\ Len(history') = n
                  /\ history'[n] = m
                  /\ SubSeq(history', 1, n - 1) = LastOf(history, n - 1)]_vars

\* A full store of capacity 2 that was loaded from a file and then
\* appended to: one loaded message is left in front of the new one.
C15_Witness ==
    /\ cap = 2
    /\ last.op = "add_message" /\ last.ret = "None"
    /\ Len(history) = 2
    /\ history[1].content = <<"f">>
    /\ history[2] = Message("user", <<"x">>, now)
    /\ LoadedMessages(files["s2"]) = history

\* C16: add_message never raises to its caller.
C16_AppendNeverRaises ==
    ~(last.op = "add_message" /\ last.ret = "raised")

\* C17: get_history() returns the whole history and get_history(n) the
\* most recent min(n, Len(history)) messages, none for n = 0 (shown for
\* stores of capacity one or more).
C17_Snapshot ==
    (last.op = "get_history" /\ cap >= 1) =>
        snap = IF last.n = NoLimit THEN history
               ELSE LastOf(history, Min({last.n, Len(history)}))

\* C18: after add_message, clear_history or load_history returned
\* successfully, the file of the current session holds exactly the
\* in-memory messages (shown for stores of capacity one or more).
C18_FileMatchesMemory ==
    (last.op \in {"add_message", "clear_history", "load_history"}
        /\ last.ret \in {"None", "True"} /\ cap >= 1) =>
            /\ files[session_file].kind = "ok"
            /\ LoadedMessages(files[session_file]) = history

NoDuplicateTimestamps(h) ==
    \A i, j \in DOMAIN h : i # j => h[i].timestamp # h[j].timestamp

SortedByTimestamp(h) ==
    \A i, j \in DOMAIN h : i < j => h[i].timestamp <= h[j].timestamp

\* C19: a successful load of an existing session into a store with a
\* non-empty history (itself free of repeated timestamps, capacity one or
\* more) leaves a history without repeated timestamps, sorted by timestamp.
C19_MergeNoDuplicates ==
    [][\A name \in SessionNames :
          (/\ LoadHistory(name)
           /\ files[name].kind = "ok"
           /\ history # <<>> /\ NoDuplicateTimestamps(history)
           /\ cap >= 1
           /\ last'.ret = "True") =>
              /\ NoDuplicateTimestamps(history')
              /\ SortedByTimestamp(history')]_vars

\* C20: with writable files, a load of a session name that has no file
\* returns True and leaves an empty history saved under that name (shown
\* for stores of capacity one or more).
C20_LoadAbsentCreatesEmpty ==
    (last.op = "load_history" /\ last.file = "absent" /\ disk_ok /\ cap >= 1) =>
        /\ last.ret = "True"
        /\ history = <<>>
        /\ files[session_file] = history_data(session_start, <<>>)


\* The file cannot be loaded: it does not parse, or its timestamps cannot
\* be ordered.
CorruptSession(f) ==
    \/ f.kind = "corrupt"
    \/ f.kind = "ok" /\ SortRaises(LoadedMessages(f))

\* C21: a load of a corrupt session returns False and leaves the in-memory
\* messages exactly as they were (shown for capacities of one or more).
C21_FailedLoadKeepsHistory ==
    [][\A name \in SessionNames :
          (LoadHistory(name) /\ CorruptSession(files[name]) /\ cap >= 1) =>
              /\ last'.ret = "False"
              /\ history' = history]_vars

\* C22: load_history never raises to its caller.
C22_LoadNeverRaises ==
    ~(last.op = "load_history" /\ last.ret = "raised")


\* ------------------------------------------------------------ parser claims
\* The line holds a mention token: an '@' directly followed by an identifier.
HasMentionToken(l) ==
    \E i \in 1..(Len(l) - 1) : l[i] = "@" /\ IsWord(l[i + 1])

\* The mention tokens of the trimmed line, in the order they appear.
Mentions(l) == finditer(strip(l))

\* The characters between mention i and mention i + 1.
Between(l, i) ==
    Slice(strip(l), Mentions(l)[i].end, Mentions(l)[i + 1].start)

\* No non-whitespace character in s.
Blank(s) == \A i \in DOMAIN s : IsSpace(s[i])

\* All mentions form one grouped run.
GroupedRun(l) ==
    /\ HasMentionToken(l)
    /\ \A i \in 1..(Len(Mentions(l)) - 1) : Blank(Between(l, i))

\* Non-whitespace text lies between at least one pair of consecutive mentions.
Interleaved(l) ==
    /\ HasMentionToken(l)
    /\ \E i \in 1..(Len(Mentions(l)) - 1) : ~Blank(Between(l, i))

\* The trimmed text preceding the first and following the last mention.
Preceding(l) == strip(Slice(strip(l), 0, Mentions(l)[1].start))
Following(l) ==
    strip(Slice(strip(l), Mentions(l)[Len(Mentions(l))].end, Len(strip(l))))

\* The trimmed text between the end of mention i and the next mention, or
\* the end of the line.
TextAfter(l, i) ==
    LET m == strip(l)
        stop == IF i < Len(Mentions(l)) THEN Mentions(l)[i + 1].start ELSE Len(m)
    IN  strip(Slice(m, Mentions(l)[i].end, stop))

RoleOf(l, i) == group1(strip(l), Mentions(l)[i])

\* C23: a line without a mention token parses to nothing when it is blank
\* and otherwise to exactly one instruction, for role Default, whose text is
\* the trimmed line.
C23_NoMentionDefault ==
    (parse.done /\ ~HasMentionToken(line)) =>
        IF strip(line) = <<>>
        THEN parse.result = <<>>
        ELSE parse.result = <<<<<<"Default">>, strip(line)>>>>

C23_Witness ==
    /\ parse.done
    /\ line = <<" ", "@", " ", "a", " ">>
    /\ parse.result = <<<<<<"Default">>, <<"@", " ", "a">>>>>>

\* Every character of the line is whitespace or part of a mention token.
OnlyMentions(l) ==
    /\ HasMentionToken(l)
    /\ \A i \in DOMAIN strip(l) :
          \/ IsSpace(strip(l)[i])
          \/ \E k \in DOMAIN Mentions(l) :
                Mentions(l)[k].start < i /\ i <= Mentions(l)[k].end

\* C24: a line made of mention tokens and whitespace only parses to nothing.
C24_OnlyMentionsEmpty ==
    (parse.done /\ OnlyMentions(line)) => parse.result = <<>>

C24_Witness ==
    /\ parse.done
    /\ line = <<"@", "a", " ", " ", "@", "b", "a">>
    /\ parse.result = <<>>

\* C25: a line with mentions is treated as broadcast exactly when no
\* non-whitespace character lies between two consecutive mentions, and as
\* segmented exactly when some pair has non-whitespace text between them.
C25_Classification ==
    (parse.done /\ HasMentionToken(line)) =>
        /\ parse.shared <=> GroupedRun(line)
        /\ ~parse.shared <=> Interleaved(line)

\* C26: on a broadcast line every text handed out is the trimmed text before
\* the first mention or the trimmed text after the last one and is no
\* shorter than either; when both are empty nothing is returned.
C26_BroadcastBodyLongest ==
    (parse.done /\ GroupedRun(line)) =>
        /\ (Preceding(line) = <<>> /\ Following(line) = <<>>) => parse.result = <<>>
        /\ \A i \in DOMAIN parse.result :
              /\ parse.result[i][2] \in {Preceding(line), Following(line)}
              /\ Len(parse.result[i][2]) >= Len(Preceding(line))
              /\ Len(parse.result[i][2]) >= Len(Following(line))

\* C27: on a broadcast line with text before or after the mentions, the
\* result has one instruction per mention token, in the order of the
\* mentions, repeated roles included, all with the same text.
C27_BroadcastOnePerMention ==
    (parse.done /\ GroupedRun(line)
       /\ (Preceding(line) # <<>> \/ Following(line) # <<>>)) =>
        /\ Len(parse.result) = Len(Mentions(line))
        /\ \A i \in DOMAIN parse.result :
              /\ parse.result[i][1] = RoleOf(line, i)
              /\ parse.result[i][2] = parse.result[1][2]

\* The mentions that have text of their own, in the order they appear.
WithText(l) == SortedSeq({i \in DOMAIN Mentions(l) : TextAfter(l, i) # <<>>})

C29_TextsTrimmed ==
    parse.done =>
        \A i \in DOMAIN parse.result :
            LET text == parse.result[i][2]
            IN  /\ text # <<>>
                /\ ~IsSpace(text[1])
                /\ ~IsSpace(text[Len(text)])

C29_Witness ==
    /\ parse.done
    /\ line = <<"@", "a", " ", ".", " ", "@", "a">>
    /\ parse.result = <<<<<<"a">>, <<".">>>>>>


\* C30: a line that is no command and parses to no instruction leaves the
\* history and its file as they were, starts no unit and no call, reports
\* no error and takes the loop back to its condition and the next prompt.
C30_EmptyParseIsNoOp ==
    [][\A l \in TypedLines :
          (InputSkip(l) /\ l \in NoInstructions) =>
              /\ history' = history
              /\ files' = files
              /\ tasks' = tasks
              /\ current_task' = current_task
              /\ nDispatch' = nDispatch
              /\ responses' = responses
              /\ pc' = LoopTop(should_exit)]_vars

C30_Witness ==
    /\ pc = "prompt"
    /\ nDispatch = 1
    /\ history # <<>>
    /\ dispatch = "none"
    /\ roles_and_messages = <<>>

\* ------------------------------------------------------------ units and signals
\* C31: a unit that was cancelled while its API call was in flight has
\* closed its client by the time it ends as cancelled.
C31_ClientClosedBeforeCancelled ==
    \A i \in Units :
        (tasks[i].st = "cancelled" /\ tasks[i].client # "none") =>
            tasks[i].client = "closed"

\* ------------------------------------------------------------ store, continued
\* C32: whatever appends, clears and loads were made, the in-memory history
\* is in non-decreasing timestamp order (shown for histories of naive
\* timestamps, which can be compared, and capacities of one or more).
C32_HistoryOrdered ==
    (cap >= 1 /\ \A i \in DOMAIN history : ~IsAware(history[i].timestamp)) =>
        SortedByTimestamp(history)

\* The request unit i sends when it takes its first step from this state.
RequestOf(i) == request_messages(tasks[i].message, get_history(history, NoLimit))

\* The user entry the loop recorded for instruction k, as requests show it.
UserEntryOf(k) ==
    [role |-> "user",
     content |-> format_role_message(roles_and_messages[k].role,
                                     roles_and_messages[k].text)]

\* C33: the conversation a unit sends with its call ends with the user
\* entries of its batch, followed only by its own message: no entry that a
\* sibling unit appended (answer or diagnostic) is part of it.
C33_ContextWithoutSiblingEntries ==
    [][\A i \in Units :
          (UnitStart(i) /\ i \in DOMAIN tasks' /\ tasks'[i].st = "call") =>
              LET ctx == RequestOf(i)
                  n == Len(roles_and_messages)
                  m == Min({n, max_history})
              IN  /\ Len(ctx) >= m + 1
                  /\ \A j \in 1..m :
                        ctx[Len(ctx) - j] = UserEntryOf(n - j + 1)]_vars

\* ------------------------------------------------------------ the batch in the history
\* h2 is h1 with zero or more messages appended at the end; messages of h1
\* are missing from h2 only at the front and only when h2 is full.
OnlyAppended(h1, h2) ==
    \E d \in 0..Len(h1) :
        /\ Len(h2) >= Len(h1) - d
        /\ SubSeq(h2, 1, Len(h1) - d) = SubSeq(h1, d + 1, Len(h1))
        /\ d > 0 => Len(h2) = max_history

\* The step in which the loop takes a line with instructions (lines 179-202).
DispatchStarts == pc = "prompt" /\ nDispatch' = nDispatch + 1

\* C34: when a dispatch starts, the history ends with one user entry per
\* instruction, content "[To <role>] <text>", in instruction order (the
\* oldest evicted when they exceed the capacity), and no unit has taken a
\* step yet; from then on every step but /reset only appends to the
\* history, so the user entries stay ahead of every answer, diagnostic and
\* cancellation record of the batch, also when the dispatch is cancelled or
\* a role is not found.
C34_UserEntriesFirst ==
    [][/\ DispatchStarts =>
            LET n == Len(roles_and_messages')
                m == Min({n, max_history})
            IN  /\ n >= 1 /\ Len(tasks') = n /\ Len(history') >= m
                /\ \A i \in 1..n : tasks'[i].st = "init"
                /\ \A j \in 1..m :
                      history'[Len(history') - m + j] =
                          Message("user",
                                  <<"[To ", roles_and_messages'[n - m + j].role,
                                    "] ", roles_and_messages'[n - m + j].text>>,
                                  now)
                /\ OnlyAppended(history, history')
       /\ ~InputReset => OnlyAppended(history, history')]_vars

\* ------------------------------------------------------------ cancelled dispatches
\* The step in which the cancellation handler of run() finishes (lines 229-241).
CancelHandled == pc = "grace" /\ pc' # "grace"

IsCancelRecord(m) == m.role = "system" /\ m.content = CancelledMsg

\* h2 is h with one cancellation record stamped t appended, possibly
\* followed by other entries that are no cancellation records.
CancelRecorded(h, h2, t) ==
    \E p \in DOMAIN h2 :
        /\ h2[p] = Message("system", CancelledMsg, t)
        /\ \A q \in (p + 1)..Len(h2) : ~IsCancelRecord(h2[q])
        /\ p - 1 <= Len(h)
        /\ SubSeq(h2, 1, p - 1) = LastOf(h, p - 1)
        /\ p - 1 < Len(h) => Len(h2) = max_history

CountIf(h, Test(_)) == Cardinality({k \in DOMAIN h : Test(h[k])})

\* Cancellation was requested for unit i before it completed.
UnitStopping(ts, i) == ts[i].must_cancel \/ ts[i].st \in {"closing", "cancelled"}

\* C35: the step that ends the handling of a cancelled dispatch appends
\* exactly one system entry recording the cancellation, whatever the number
\* of units, and no other step adds such a record; a unit for which
\* cancellation was requested before it completed never obtains a response
\* and no step of it, during or after the handling, adds an entry under its
\* role name.
C35_OneCancellationRecord ==
    [][/\ IF CancelHandled
          THEN CancelRecorded(history, history', now)
          ELSE CountIf(history', IsCancelRecord) <= CountIf(history, IsCancelRecord)
       /\ \A i \in Units :
             (SameDispatch /\ UnitStopping(tasks, i)) => UnitStopping(tasks', i)
       /\ \A i \in Units :
             (SameDispatch /\ UnitStopping(tasks', i)) =>
                 LET OfRole(m) == m.role = tasks[i].role_name
                 IN  /\ tasks'[i].response = NoResult
                     /\ tasks'[i].st # tasks[i].st => history' = history
                     /\ CountIf(history', OfRole) > CountIf(history, OfRole) =>
                           \E j \in Units \ {i} :
                               /\ ~UnitStopping(tasks, j)
                               /\ tasks[j].role_name = tasks[i].role_name
                               /\ ~TaskDone(tasks[j]) /\ TaskDone(tasks'[j])
                               /\ tasks'[j].response # NoResult]_vars

\* ------------------------------------------------------------ signals during a dispatch
\* A dispatch is being processed: run() is between lines 186 and 241.
Dispatching == pc \in {"gather", "grace"}

\* C36: a signal handled while a dispatch is being processed cancels it
\* (every unit still running is told to stop) and leaves should_exit as it
\* was; should_exit only changes at the prompt; and whenever the loop is
\* back at the prompt, or has ended, current_task is None.
C36_SignalCancelsDispatch ==
    [][/\ (Signal /\ Dispatching) =>
            /\ should_exit' = should_exit
            /\ \A i \in Units : ~TaskDone(tasks[i]) => tasks'[i].must_cancel
       /\ should_exit' # should_exit => ~Dispatching
       /\ ~Dispatching' => current_task' = "None"]_vars

\* ------------------------------------------------------------ control lines
\* The command word of a line, as process_command reads it.
CommandWord(l) == lower(split(l)[1])

\* C37: a line that starts with '/' yields no instructions, starts no unit
\* and leaves the history as it is, unless it resolves to /reset, which
\* empties the history; for a command that is not known the loop shows
\* "Unknown command: <word>. Type /help for available commands." and
\* changes nothing.
C37_CommandsLeaveHistory ==
    [][\A l \in ControlLines :
          (InputLine(l) /\ is_command(l)) =>
              LET r == process_command(strip(l))
              IN  /\ parse' = parse
                  /\ roles_and_messages' = roles_and_messages
                  /\ tasks' = tasks /\ nDispatch' = nDispatch
                  /\ dispatch' = dispatch /\ current_task' = current_task
                  /\ \/ history' = history
                     \/ r.method = "cmd_reset" /\ history' = <<>>
                  /\ r.method = "None" =>
                        /\ shown' = UnknownCommandMsg(CommandWord(l))
                        /\ history' = history]_vars

\* The line resolves to the quit command: the words exit and quit, or a
\* command whose word is /quit or /exit, whatever follows the word.
ResolvesToQuit(l) ==
    \/ lower(strip(l)) \in {<<"exit">>, <<"quit">>}
    \/ is_command(l) /\ CommandWord(l) \in {<<"/", "quit">>, <<"/", "exit">>}

\* C38: when a line resolves to the quit command and the goodbye message
\* is shown for it, the loop has ended; and once the loop has ended no
\* further line is read.
C38_QuitEndsLoop ==
    [][/\ \A l \in ControlLines :
             (InputLine(l) /\ ResolvesToQuit(l) /\ shown' = Goodbye) => pc' = "exited"
       /\ pc = "exited" => (pc' = "exited" /\ line' = line /\ history' = history)]_vars

\* ------------------------------------------------------------ save and load
\* Histories of n messages that appends can have produced: timestamps of
\* datetime.now() that do not decrease.
AppendHistories ==
    [n \in 0..MaxCap |->
        {h \in [1..n -> {Message("user", <<x>>, t) : x \in {"x", "f"}, t \in Stamps}] :
            SortedByTimestamp(h)}]

\* C39: when the file of a session is what _save_history wrote for a
\* history h produced by appends and no longer than the capacity, loading
\* that session into a store with an empty history and the same capacity
\* leaves exactly h as the history: the same speakers, contents and
\* timestamps in the same order.
C39_SaveLoadRoundTrip ==
    [][\A name \in SessionNames :
          (history = <<>> /\ files[name].kind = "ok" /\ LoadHistory(name)) =>
              \A n \in 0..cap : \A h \in AppendHistories[n] :
                  files[name] = history_data(fromisoformat(files[name].session_start), h) =>
                      history' = h]_vars

\* A fresh store loaded a session that holds two messages of different
\* timestamps and has them as its history.
C39_Witness ==
    /\ last.op = "load_history" /\ last.ret = "True"
    /\ session_file = "s2" /\ files["s1"] = AbsentFile /\ disk_ok
    /\ cap = 2
    /\ history = <<Message("user", <<"f">>, 0), Message("user", <<"f">>, 1)>>
    /\ files["s2"] = history_data(0, history)

\* C40: a load that returns False leaves session_file and session_start
\* as they were; an append that follows it rewrites no file that does not
\* parse.
C40_FailedLoadKeepsTarget ==
    [][/\ \A name \in SessionNames :
             (LoadHistory(name) /\ last'.ret = "False" /\ cap >= 1) =>
                 /\ session_file' = session_file
                 /\ session_start' = session_start
       /\ (last.op = "load_history" /\ last.ret = "False" /\ cap >= 1
             /\ last'.op = "add_message") =>
                 \A n \in SessionNames :
                     files[n].kind = "corrupt" => files'[n] = files[n]]_vars

====
